---- MODULE Spec2Model ----
(***************************************************************************)
(* PhoenixAuto-Ops policy layer: the cooldown gate and alert dispatch of   *)
(* app/alerting, the dry-run / bounded-retry executor of app/healing and   *)
(* the threshold lookup of app/utils/config_loader and app/monitoring.     *)
(*                                                                         *)
(* Time is counted in minutes (the unit of alerting.cooldown_minutes).     *)
(* A Python dict is a function whose DOMAIN is the set of keys present.    *)
(* An optional value (None or a value) is the empty set or a singleton.    *)
(***************************************************************************)
EXTENDS Integers, Sequences, FiniteSets, TLC

VARIABLES
    now,              \* the wall clock read by datetime.now()
    senders,          \* the alert sender instances that were constructed
    credentials,      \* per sender: are all its credentials present in the config
    cooldown_minutes, \* per sender: BaseAlertSender.cooldown_minutes
    last_sent,        \* per sender: BaseAlertSender.last_sent (metric -> time)
    last_ok,          \* history: per sender, metric -> return time of the last call that returned True
    last_delivered,   \* history: per sender, metric -> time the transport last delivered a message
    call,             \* history: the most recent send_alert call and what it did
    threads,          \* per caller thread: where its send_alert call is and what it has done
    formatted,        \* history: the two most recent _format_message calls, latest first
    healing_enabled,  \* BaseHealer.healing_enabled
    max_retries,      \* BaseHealer.max_retries
    dry_run,          \* BaseHealer.dry_run
    hpc,              \* where the healer is: "idle", "loop" (top of an attempt) or "sleep"
    action,           \* the public healing action being executed
    attempt,          \* the loop variable of _safe_execute
    invocations,      \* history: invocations of the wrapped operation by this call
    failures,         \* history: how many of them raised
    sleeps,           \* history: the sleeps of this call, in order, with their lengths
    result,           \* history: how the most recent _safe_execute call ended
    ran,              \* history: what the command of the latest invocation did, and whether the operation raised
    config,           \* ConfigLoader._config, the loaded YAML document
    lookup,           \* history: the most recent threshold lookup and its outcome
    health            \* history: the most recent is_healthy call and its outcome

alertVars == <<now, senders, credentials, cooldown_minutes, last_sent,
               last_ok, last_delivered, call, threads, formatted>>

healVars == <<healing_enabled, max_retries, dry_run, hpc, action, attempt,
              invocations, failures, sleeps, result, ran>>

configVars == <<config, lookup, health>>

vars == <<alertVars, healVars, configVars>>

----------------------------------------------------------------------------
(* Bounds of the model *)

MaxTime == 3
MaxCooldown == 2
MaxSendTime == 1
MaxRetries == 3
MaxThreshold == 1

----------------------------------------------------------------------------
(* Alerting: app/alerting *)

Channels == {"slack", "telegram", "email"}
Metrics == {"cpu_usage_percent", "memory_usage_percent"}
\* A level is the sequence of its characters
Levels == {<<"w", "a", "r", "n", "i", "n", "g">>,
           <<"c", "r", "i", "t", "i", "c", "a", "l">>}
Values == {95}
Thresholds == {80}

\* What the network / SMTP server does when the transport contacts it.
NetOutcomes == {"ok", "request_error", "other_error"}

\* dict.get(key): None (the empty set) when the key is absent
DictGet(d, k) == IF k \in DOMAIN d THEN {d[k]} ELSE {}

\* d[key] = value
DictPut(d, k, v) == [x \in (DOMAIN d) \cup {k} |-> IF x = k THEN v ELSE d[x]]

EmptyDict == [x \in {} |-> 0]

LowerLetters ==
    <<"a", "b", "c", "d", "e", "f", "g", "h", "i", "j", "k", "l", "m",
      "n", "o", "p", "q", "r", "s", "t", "u", "v", "w", "x", "y", "z">>

UpperLetters ==
    <<"A", "B", "C", "D", "E", "F", "G", "H", "I", "J", "K", "L", "M",
      "N", "O", "P", "Q", "R", "S", "T", "U", "V", "W", "X", "Y", "Z">>

\* The upper-case letter of each lower-case letter
UpperTable ==
    [c \in {LowerLetters[i] : i \in DOMAIN LowerLetters} |->
        UpperLetters[CHOOSE i \in DOMAIN LowerLetters : LowerLetters[i] = c]]

\* str.upper(): every lower-case letter is replaced, every other character kept
Upper(level) ==
    [i \in DOMAIN level |->
        IF level[i] \in DOMAIN UpperTable THEN UpperTable[level[i]] ELSE level[i]]

_is_cooldown_over_inclusive(d, metric_key, t, window) ==
    LET last_time == DictGet(d, metric_key)
    IN  IF last_time # {} /\ \E lt \in last_time : (t - lt) <= window
        THEN FALSE
        ELSE TRUE

\* BaseAlertSender._is_cooldown_over, with d = self.last_sent, t = datetime.now()
\* and window = timedelta(minutes=self.cooldown_minutes)
_is_cooldown_over(d, metric_key, t, window) ==
    LET last_time == DictGet(d, metric_key)
    IN  IF last_time # {} /\ \E lt \in last_time : (t - lt) < window
        THEN FALSE
        ELSE TRUE

_format_message_keeps_case(metric, value, threshold, level) ==
    <<level, " Alert: ", metric, " exceeded threshold (", value, " > ", threshold, ")">>

\* BaseAlertSender._format_message
_format_message(metric, value, threshold, level) ==
    <<Upper(level), " Alert: ", metric, " exceeded threshold (", value, " > ", threshold, ")">>

\* What a channel-specific _send did: contacted, an outbound request was made;
\* delivered, the service accepted the message; raised, an exception left _send.
SendSkipped == [contacted |-> FALSE, delivered |-> FALSE, raised |-> FALSE]
SendDelivered == [contacted |-> TRUE, delivered |-> TRUE, raised |-> FALSE]
SendRaised == [contacted |-> TRUE, delivered |-> FALSE, raised |-> TRUE]

SlackSend_without_credential_check(has_url, net) ==
    CASE net = "ok" -> SendDelivered
      [] net = "request_error" -> SendRaised
      [] OTHER -> SendRaised

\* SlackAlertSender._send: has_url is bool(self.webhook_url)
SlackSend(has_url, net) ==
    IF ~has_url
    THEN SendSkipped
    ELSE CASE net = "ok" -> SendDelivered
           [] net = "request_error" -> SendRaised
           [] OTHER -> SendRaised

\* TelegramAlertSender._send: has_creds is bool(bot_token) and bool(chat_id)
TelegramSend(has_creds, net) ==
    IF ~has_creds
    THEN SendSkipped
    ELSE CASE net = "ok" -> SendDelivered
           [] net = "request_error" -> SendRaised
           [] OTHER -> SendRaised

\* EmailAlertSender._send: has_creds is all([smtp_server, username, password,
\* from_email, to_email]); every exception of the SMTP exchange is re-raised
EmailSend(has_creds, net) ==
    IF ~has_creds
    THEN SendSkipped
    ELSE IF net = "ok" THEN SendDelivered ELSE SendRaised

\* self._send(message), dispatched on the class of the sender
_send(channel, has_creds, net) ==
    CASE channel = "slack" -> SlackSend(has_creds, net)
      [] channel = "telegram" -> TelegramSend(has_creds, net)
      [] channel = "email" -> EmailSend(has_creds, net)

send_alert_never_records(d, window, t0, t1, metric, sent) ==
    IF ~_is_cooldown_over(d, metric, t0, window)
    THEN [last_sent |-> d, ret |-> FALSE, escaped |-> FALSE, sends |-> 0]
    ELSE IF sent.raised
         THEN [last_sent |-> d, ret |-> FALSE, escaped |-> FALSE, sends |-> 1]
         ELSE [last_sent |-> d, ret |-> TRUE, escaped |-> FALSE, sends |-> 1]

send_alert_records_first(d, window, t0, t1, metric, sent) ==
    IF ~_is_cooldown_over(d, metric, t0, window)
    THEN [last_sent |-> d, ret |-> FALSE, escaped |-> FALSE, sends |-> 0]
    ELSE IF sent.raised
         THEN [last_sent |-> DictPut(d, metric, t0), ret |-> FALSE,
               escaped |-> FALSE, sends |-> 1]
         ELSE [last_sent |-> DictPut(d, metric, t0), ret |-> TRUE,
               escaped |-> FALSE, sends |-> 1]

send_alert_uncaught(d, window, t0, t1, metric, sent) ==
    IF ~_is_cooldown_over(d, metric, t0, window)
    THEN [last_sent |-> d, ret |-> FALSE, escaped |-> FALSE, sends |-> 0]
    ELSE IF sent.raised
         THEN [last_sent |-> d, ret |-> FALSE, escaped |-> TRUE, sends |-> 1]
         ELSE [last_sent |-> DictPut(d, metric, t1), ret |-> TRUE,
               escaped |-> FALSE, sends |-> 1]

send_alert_refreshes_on_reject(d, window, t0, t1, metric, sent) ==
    IF ~_is_cooldown_over(d, metric, t0, window)
    THEN [last_sent |-> DictPut(d, metric, t0), ret |-> FALSE,
          escaped |-> FALSE, sends |-> 0]
    ELSE IF sent.raised
         THEN [last_sent |-> d, ret |-> FALSE, escaped |-> FALSE, sends |-> 1]
         ELSE [last_sent |-> DictPut(d, metric, t1), ret |-> TRUE,
               escaped |-> FALSE, sends |-> 1]

send_alert_records_every_key(d, window, t0, t1, metric, sent) ==
    IF ~_is_cooldown_over(d, metric, t0, window)
    THEN [last_sent |-> d, ret |-> FALSE, escaped |-> FALSE, sends |-> 0]
    ELSE IF sent.raised
         THEN [last_sent |-> d, ret |-> FALSE, escaped |-> FALSE, sends |-> 1]
         ELSE [last_sent |-> [k \in Metrics |-> t1], ret |-> TRUE,
               escaped |-> FALSE, sends |-> 1]

send_alert_records_then_fails(d, window, t0, t1, metric, sent) ==
    IF ~_is_cooldown_over(d, metric, t0, window)
    THEN [last_sent |-> d, ret |-> FALSE, escaped |-> FALSE, sends |-> 0]
    ELSE IF sent.raised
         THEN [last_sent |-> DictPut(d, metric, t1), ret |-> FALSE,
               escaped |-> FALSE, sends |-> 1]
         ELSE [last_sent |-> DictPut(d, metric, t1), ret |-> TRUE,
               escaped |-> FALSE, sends |-> 1]

send_alert_sends_again(d, window, t0, t1, metric, sent) ==
    IF ~_is_cooldown_over(d, metric, t0, window)
    THEN [last_sent |-> d, ret |-> FALSE, escaped |-> FALSE, sends |-> 0]
    ELSE IF sent.raised
         THEN [last_sent |-> d, ret |-> FALSE, escaped |-> FALSE, sends |-> 2]
         ELSE [last_sent |-> DictPut(d, metric, t1), ret |-> TRUE,
               escaped |-> FALSE, sends |-> 1]

\* BaseAlertSender.send_alert on a sender whose last_sent is d, entered at time
\* t0, whose _send (if it is reached) does `sent` and returns at time t1.
\* ret: the value returned; escaped: an exception left send_alert; sends: the
\* number of times self._send was invoked.
send_alert(d, window, t0, t1, metric, sent) ==
    IF ~_is_cooldown_over(d, metric, t0, window)
    THEN [last_sent |-> d, ret |-> FALSE, escaped |-> FALSE, sends |-> 0]
    ELSE IF sent.raised
         THEN [last_sent |-> d, ret |-> FALSE, escaped |-> FALSE, sends |-> 1]
         ELSE [last_sent |-> DictPut(d, metric, t1), ret |-> TRUE,
               escaped |-> FALSE, sends |-> 1]

\* The record of a send_alert call: prev and prev_ok are last_sent.get(metric)
\* and last_ok.get(metric) as the call found them, over is what _is_cooldown_over
\* returned, after_fail holds the return time of the call before this one when
\* that call was for the same sender and metric and its _send raised.
NoCall ==
    [done |-> FALSE, sender |-> "none", metric |-> "none", message |-> <<>>,
     t0 |-> 0, t1 |-> 0, prev |-> {}, prev_ok |-> {}, after_fail |-> {},
     over |-> FALSE, sends |-> 0, net |-> "none", sent |-> SendSkipped,
     ret |-> FALSE, escaped |-> FALSE]

\* The threads of the caller that may be inside send_alert at once
Threads == {"thread1", "thread2"}

\* A thread that has not called send_alert. pc: "idle", "send" (the gate let the
\* call through and _send is next), "record" (_send returned and the timestamp
\* is written next) or "done"; over: what the gate returned; sent: what _send
\* did; t1: when the timestamp was written; ret: the value returned.
ThreadIdle ==
    [pc |-> "idle", metric |-> "none", over |-> FALSE, sent |-> SendSkipped,
     t1 |-> 0, ret |-> FALSE]

\* BaseAlertSender.__init__ of every constructed sender: last_sent = {} and
\* cooldown_minutes from the configuration; the clock starts at 0.
AlertInit ==
    /\ now = 0
    /\ \E c \in Channels : senders = {c}
    /\ credentials \in [senders -> BOOLEAN]
    /\ cooldown_minutes \in [senders -> 0..MaxCooldown]
    /\ last_sent = [s \in senders |-> EmptyDict]
    /\ last_ok = [s \in senders |-> EmptyDict]
    /\ last_delivered = [s \in senders |-> EmptyDict]
    /\ call = NoCall
    /\ threads = [t \in Threads |-> ThreadIdle]
    /\ formatted = <<>>

last_sent_of_class(all, s, d) == [x \in DOMAIN all |-> d]

\* self.last_sent = d on sender s: last_sent is an attribute that __init__
\* creates on the instance, so the dicts of the other senders stay as they are
last_sent_of_instance(all, s, d) == [all EXCEPT ![s] = d]

\* One send_alert(metric, value, threshold, level) call on sender s, run to
\* completion. net is the answer of the remote service and dur the time the
\* transport takes; both are fixed when the transport is not contacted.
\* over, sent, t1 and out are each evaluated once for the step.
SendAlert(s, metric, value, threshold, level, net, dur) ==
    \E over \in {_is_cooldown_over(last_sent[s], metric, now, cooldown_minutes[s])} :
    \E sent \in {_send(s, credentials[s], net)} :
    \E t1 \in {IF over THEN now + dur ELSE now} :
    \E out \in {send_alert(last_sent[s], cooldown_minutes[s], now, t1, metric, sent)} :
        /\ t1 <= MaxTime
        /\ ~over => (dur = 0 /\ net = "ok")
        /\ ~credentials[s] => net = "ok"
        /\ now' = t1
        /\ last_sent' = last_sent_of_instance(last_sent, s, out.last_sent)
        /\ last_ok' = IF out.ret
                      THEN [last_ok EXCEPT ![s] = DictPut(@, metric, t1)]
                      ELSE last_ok
        /\ last_delivered' = IF out.sends > 0 /\ sent.delivered
                             THEN [last_delivered EXCEPT ![s] = DictPut(@, metric, t1)]
                             ELSE last_delivered
        /\ call' = [done |-> TRUE, sender |-> s, metric |-> metric,
                    message |-> _format_message(metric, value, threshold, level),
                    t0 |-> now, t1 |-> t1,
                    prev |-> DictGet(last_sent[s], metric),
                    prev_ok |-> DictGet(last_ok[s], metric),
                    after_fail |-> IF /\ call.done
                                      /\ call.sender = s
                                      /\ call.metric = metric
                                      /\ call.sends > 0
                                      /\ call.sent.raised
                                   THEN {call.t1}
                                   ELSE {},
                    over |-> over,
                    sends |-> out.sends,
                    net |-> IF out.sends > 0 /\ sent.contacted THEN net ELSE "none",
                    sent |-> IF out.sends > 0 THEN sent ELSE SendSkipped,
                    ret |-> out.ret,
                    escaped |-> out.escaped]
        /\ UNCHANGED <<senders, credentials, cooldown_minutes, threads, formatted>>
        /\ UNCHANGED <<healVars, configVars>>

\* Time passes between calls.
Tick ==
    /\ now < MaxTime
    /\ now' = now + 1
    /\ UNCHANGED <<senders, credentials, cooldown_minutes, last_sent, last_ok,
                   last_delivered, call, threads, formatted>>
    /\ UNCHANGED <<healVars, configVars>>

send_alert_record_rechecks_gate(d, window, metric, t) ==
    IF _is_cooldown_over(d, metric, t, window)
    THEN [last_sent |-> DictPut(d, metric, t), ret |-> TRUE]
    ELSE [last_sent |-> d, ret |-> FALSE]

\* send_alert after _send has returned: the timestamp is written and True is
\* returned; d is self.last_sent as it is then, t is datetime.now()
send_alert_record(d, window, metric, t) ==
    [last_sent |-> DictPut(d, metric, t), ret |-> TRUE]

\* Thread t enters send_alert(metric, ...) on sender s and evaluates the gate
RaceGate(t, s, metric) ==
    /\ threads[t].pc = "idle"
    /\ \E over \in {_is_cooldown_over(last_sent[s], metric, now, cooldown_minutes[s])} :
          threads' = [threads EXCEPT ![t] =
                        [@ EXCEPT !.pc = IF over THEN "send" ELSE "done",
                                  !.metric = metric,
                                  !.over = over]]
    /\ UNCHANGED <<now, senders, credentials, cooldown_minutes, last_sent, last_ok,
                   last_delivered, call, formatted>>
    /\ UNCHANGED <<healVars, configVars>>

\* Thread t formats the message and runs self._send(message); a raising _send
\* takes the call to the except branch, which returns False
RaceSend(t, s, net) ==
    /\ threads[t].pc = "send"
    /\ ~credentials[s] => net = "ok"
    /\ \E sent \in {_send(s, credentials[s], net)} :
          threads' = [threads EXCEPT ![t] =
                        [@ EXCEPT !.pc = IF sent.raised THEN "done" ELSE "record",
                                  !.sent = sent]]
    /\ UNCHANGED <<now, senders, credentials, cooldown_minutes, last_sent, last_ok,
                   last_delivered, call, formatted>>
    /\ UNCHANGED <<healVars, configVars>>

\* Thread t writes last_sent[metric] = datetime.now() and returns True
RaceRecord(t, s) ==
    /\ threads[t].pc = "record"
    /\ \E out \in {send_alert_record(last_sent[s], cooldown_minutes[s],
                                      threads[t].metric, now)} :
        /\ last_sent' = [last_sent EXCEPT ![s] = out.last_sent]
        /\ threads' = [threads EXCEPT ![t] =
                          [@ EXCEPT !.pc = "done", !.t1 = now, !.ret = out.ret]]
    /\ UNCHANGED <<now, senders, credentials, cooldown_minutes, last_ok,
                   last_delivered, call, formatted>>
    /\ UNCHANGED <<healVars, configVars>>

\* Two threads each make one send_alert call on the same sender, their steps
\* interleaved in any order, while time passes
NextRace ==
    \/ \E t \in Threads, s \in senders, metric \in Metrics : RaceGate(t, s, metric)
    \/ \E t \in Threads, s \in senders, net \in NetOutcomes : RaceSend(t, s, net)
    \/ \E t \in Threads, s \in senders : RaceRecord(t, s)
    \/ Tick

\* A sender of every channel was constructed, each with its credentials
MultiInit ==
    /\ now = 0
    /\ senders = Channels
    /\ credentials = [s \in senders |-> TRUE]
    /\ cooldown_minutes \in [senders -> {1, MaxCooldown}]
    /\ last_sent = [s \in senders |-> EmptyDict]
    /\ last_ok = [s \in senders |-> EmptyDict]
    /\ last_delivered = [s \in senders |-> EmptyDict]
    /\ call = NoCall
    /\ threads = [t \in Threads |-> ThreadIdle]
    /\ formatted = <<>>

\* The same breach is reported on any of the senders, or time passes
NextMulti ==
    \/ \E s \in senders, metric \in {"cpu_usage_percent"}, value \in Values,
          threshold \in Thresholds, level \in {<<"w", "a", "r", "n", "i", "n", "g">>},
          net \in {"ok", "request_error"}, dur \in {0} :
            SendAlert(s, metric, value, threshold, level, net, dur)
    \/ Tick

\* The levels, values and thresholds the formatter is called with
FormatLevels ==
    Levels \cup {<<"W", "a", "r", "n", "i", "n", "g">>,
                 <<"W", "A", "R", "N", "I", "N", "G">>,
                 <<"C", "r", "i", "t", "i", "c", "a", "l">>,
                 <<"i", "n", "f", "o", "-", "1">>}
FormatValues == {85, 95}
FormatThresholds == {80, 90}

\* One call of _format_message; the two latest calls are kept
FormatMessage(metric, value, threshold, level) ==
    /\ formatted' =
          <<[metric |-> metric, value |-> value, threshold |-> threshold,
             level |-> level,
             message |-> _format_message(metric, value, threshold, level)]>>
          \o (IF formatted = <<>> THEN <<>> ELSE <<formatted[1]>>)
    /\ UNCHANGED <<now, senders, credentials, cooldown_minutes, last_sent, last_ok,
                   last_delivered, call, threads>>
    /\ UNCHANGED <<healVars, configVars>>

\* The formatter, called with any arguments
NextFormat ==
    \E metric \in Metrics, value \in FormatValues, threshold \in FormatThresholds,
       level \in FormatLevels :
        FormatMessage(metric, value, threshold, level)

\* The alert senders: any call on any sender, or time passing
Next ==
    \/ \E s \in senders, metric \in Metrics, value \in Values,
          threshold \in Thresholds, level \in Levels,
          net \in NetOutcomes, dur \in 0..MaxSendTime :
            SendAlert(s, metric, value, threshold, level, net, dur)
    \/ Tick

----------------------------------------------------------------------------
(* Healing: app/healing *)

Actions == {"restart_service", "kill_process", "clear_cache", "log_rotate"}

\* What the command of a remediation operation does: it exits with status 0,
\* exits with another status, or cannot be run at all (OSError, timeout).
CmdResults == {"exit0", "nonzero", "oserror"}

\* HealingActions._run_systemctl: does it raise
_run_systemctl(cmd) == cmd = "oserror" \/ cmd = "nonzero"

\* HealingActions._kill_process_by_name: the return code of pkill is not read
_kill_process_by_name(cmd) == cmd = "oserror"

\* HealingActions._clear_system_cache: the write to drop_caches works or raises
_clear_system_cache(cmd) == cmd = "oserror"

\* HealingActions._run_logrotate: does it raise
_run_logrotate(cmd) == cmd = "oserror" \/ cmd = "nonzero"

\* func(*args, **kwargs) for the operation each public action hands to
\* _safe_execute: TRUE when the operation raises
OperationRaises(a, cmd) ==
    CASE a = "restart_service" -> _run_systemctl(cmd)
      [] a = "kill_process" -> _kill_process_by_name(cmd)
      [] a = "clear_cache" -> _clear_system_cache(cmd)
      [] a = "log_rotate" -> _run_logrotate(cmd)

\* The outcomes an operation's command has: _clear_system_cache runs no
\* command, its write to drop_caches works ("exit0") or raises
CmdResultsOf(a) == IF a = "clear_cache" THEN {"exit0", "oserror"} ELSE CmdResults

\* No invocation yet
NoRun == [cmd |-> "none", raised |-> FALSE]

\* sleep(2) between retries
RetryDelay == 2

\* BaseHealer._should_heal
_should_heal == IF ~healing_enabled THEN FALSE ELSE TRUE

\* The values auto_healing.max_retry_attempts may hold
RetryValues == (-1)..MaxRetries

\* BaseHealer.__init__: the three settings are read from the configuration
HealInit ==
    /\ healing_enabled \in BOOLEAN
    /\ max_retries \in RetryValues
    /\ dry_run \in BOOLEAN
    /\ hpc = "idle"
    /\ action = "none"
    /\ attempt = 0
    /\ invocations = 0
    /\ failures = 0
    /\ sleeps = <<>>
    /\ result = "none"
    /\ ran = NoRun

\* A public action (restart_service, kill_process, clear_cache, log_rotate)
\* calls _safe_execute, which enters `for attempt in range(1, max_retries + 1)`.
\* With an empty range the loop body never runs and the call returns None.
BeginAction(a) ==
    /\ hpc = "idle"
    /\ action' = a
    /\ invocations' = 0
    /\ failures' = 0
    /\ sleeps' = <<>>
    /\ ran' = NoRun
    /\ IF 1 <= max_retries
       THEN /\ hpc' = "loop"
            /\ attempt' = 1
            /\ result' = "running"
       ELSE /\ hpc' = "idle"
            /\ attempt' = 0
            /\ result' = "None"
    /\ UNCHANGED <<healing_enabled, max_retries, dry_run>>
    /\ UNCHANGED <<alertVars, configVars>>

_safe_execute_attempt_keeps_going(dry, att, max, raises) ==
    IF dry
    THEN [pc |-> "idle", result |-> "True", invoked |-> FALSE, failed |-> FALSE]
    ELSE IF ~raises /\ att = max
         THEN [pc |-> "idle", result |-> "returned", invoked |-> TRUE, failed |-> FALSE]
         ELSE IF ~raises
              THEN [pc |-> "sleep", result |-> "running", invoked |-> TRUE, failed |-> FALSE]
              ELSE IF att = max
                   THEN [pc |-> "idle", result |-> "raised", invoked |-> TRUE, failed |-> TRUE]
                   ELSE [pc |-> "sleep", result |-> "running", invoked |-> TRUE, failed |-> TRUE]

_safe_execute_attempt_dry_run_first_only(dry, att, max, raises) ==
    IF dry /\ att = 1
    THEN [pc |-> "idle", result |-> "True", invoked |-> FALSE, failed |-> FALSE]
    ELSE IF ~raises
         THEN [pc |-> "idle", result |-> "returned", invoked |-> TRUE, failed |-> FALSE]
         ELSE IF att = max
              THEN [pc |-> "idle", result |-> "raised", invoked |-> TRUE, failed |-> TRUE]
              ELSE [pc |-> "sleep", result |-> "running", invoked |-> TRUE, failed |-> TRUE]

\* The body of the loop of BaseHealer._safe_execute for attempt att of max, with
\* dry = self.dry_run as this iteration reads it and raises = func raises when
\* invoked. pc: where the call is afterwards; result: how it ended, "running"
\* when it goes on to sleep; invoked, failed: was func invoked, did it raise.
_safe_execute_attempt(dry, att, max, raises) ==
    IF dry
    THEN [pc |-> "idle", result |-> "True", invoked |-> FALSE, failed |-> FALSE]
    ELSE IF ~raises
         THEN [pc |-> "idle", result |-> "returned", invoked |-> TRUE, failed |-> FALSE]
         ELSE IF att = max
              THEN [pc |-> "idle", result |-> "raised", invoked |-> TRUE, failed |-> TRUE]
              ELSE [pc |-> "sleep", result |-> "running", invoked |-> TRUE, failed |-> TRUE]

\* One iteration of the loop of _safe_execute, up to its return, its raise or
\* its sleep. cmd is what the command does if the operation is invoked.
Attempt(cmd) ==
    /\ hpc = "loop"
    /\ cmd \in CmdResultsOf(action)
    /\ \E out \in {_safe_execute_attempt(dry_run, attempt, max_retries,
                                         OperationRaises(action, cmd))} :
        /\ hpc' = out.pc
        /\ result' = out.result
        /\ invocations' = IF out.invoked THEN invocations + 1 ELSE invocations
        /\ failures' = IF out.failed THEN failures + 1 ELSE failures
        /\ ran' = IF out.invoked THEN [cmd |-> cmd, raised |-> out.failed] ELSE ran
    /\ UNCHANGED <<healing_enabled, max_retries, dry_run, action, attempt, sleeps>>
    /\ UNCHANGED <<alertVars, configVars>>

Sleep_backoff_grows ==
    /\ hpc = "sleep"
    /\ sleeps' = Append(sleeps, RetryDelay * attempt)
    /\ attempt' = attempt + 1
    /\ hpc' = "loop"
    /\ UNCHANGED <<healing_enabled, max_retries, dry_run, action, invocations,
                   failures, result, ran>>
    /\ UNCHANGED <<alertVars, configVars>>

\* sleep(2) returns and the for loop takes its next value
Sleep ==
    /\ hpc = "sleep"
    /\ sleeps' = Append(sleeps, RetryDelay)
    /\ attempt' = attempt + 1
    /\ hpc' = "loop"
    /\ UNCHANGED <<healing_enabled, max_retries, dry_run, action, invocations,
                   failures, result, ran>>
    /\ UNCHANGED <<alertVars, configVars>>

\* The caller sets healer.dry_run while a call is between two attempts
SetDryRun(b) ==
    /\ hpc = "sleep"
    /\ dry_run # b
    /\ dry_run' = b
    /\ UNCHANGED <<healing_enabled, max_retries, hpc, action, attempt, invocations,
                   failures, sleeps, result, ran>>
    /\ UNCHANGED <<alertVars, configVars>>

\* The healer: a public action starts, an attempt runs, a sleep ends
NextHeal ==
    \/ \E a \in Actions : BeginAction(a)
    \/ \E cmd \in CmdResults : Attempt(cmd)
    \/ Sleep

\* The healer whose dry_run attribute is changed from outside during a call
NextHealToggle ==
    \/ NextHeal
    \/ \E b \in BOOLEAN : SetDryRun(b)

\* A healer that was constructed and is not used
HealIdle ==
    /\ healing_enabled = TRUE
    /\ max_retries = 3
    /\ dry_run = TRUE
    /\ hpc = "idle"
    /\ action = "none"
    /\ attempt = 0
    /\ invocations = 0
    /\ failures = 0
    /\ sleeps = <<>>
    /\ result = "none"
    /\ ran = NoRun

\* No sender was constructed
AlertIdle ==
    /\ now = 0
    /\ senders = {}
    /\ credentials = EmptyDict
    /\ cooldown_minutes = EmptyDict
    /\ last_sent = EmptyDict
    /\ last_ok = EmptyDict
    /\ last_delivered = EmptyDict
    /\ call = NoCall
    /\ threads = [t \in Threads |-> ThreadIdle]
    /\ formatted = <<>>

----------------------------------------------------------------------------
(* Threshold lookup: app/utils/config_loader.py, app/monitoring/base.py *)

\* The values of a YAML document. A string is "str" when it spells the number
\* v and "text" when it spells no number; a mapping carries its dict in d.
Null == [t |-> "null", v |-> 0]
IntValue(n) == [t |-> "int", v |-> n]
FloatValue(n) == [t |-> "float", v |-> n]
StrValue(n) == [t |-> "str", v |-> n]
TextValue == [t |-> "text", v |-> 0]
DictValue(f) == [t |-> "dict", d |-> f]

ThresholdNumbers == 1..MaxThreshold

Scalars ==
    {Null, TextValue}
        \cup {IntValue(n) : n \in ThresholdNumbers}
        \cup {StrValue(n) : n \in ThresholdNumbers}

\* Every dict whose keys are among keys and whose values are chosen by values[key]
DictsOver(keys, values) ==
    UNION {{DictValue(f) : f \in {g \in [ks -> UNION {values[k] : k \in ks}] :
                                     \A k \in ks : g[k] \in values[k]}} :
           ks \in SUBSET keys}

ConnectionDicts == DictsOver({"max_connections"}, [k \in {"max_connections"} |-> Scalars])

NamespaceDicts ==
    DictsOver({"cpu_usage_percent", "network"},
              [k \in {"cpu_usage_percent", "network"} |->
                  IF k = "network" THEN Scalars \cup ConnectionDicts ELSE Scalars])

\* The documents thresholds.yaml may hold
Configs ==
    DictsOver({"thresholds", "cpu_usage_percent", "network"},
              [k \in {"thresholds", "cpu_usage_percent", "network"} |->
                  CASE k = "thresholds" -> Scalars \cup NamespaceDicts
                    [] k = "cpu_usage_percent" -> Scalars
                    [] k = "network" -> Scalars \cup ConnectionDicts])

\* A metric key is the sequence of the segments that key.split(".") gives, so
\* f"thresholds.{metric_key}".split(".") is <<"thresholds">> \o key.
MetricKeys == {<<"cpu_usage_percent">>, <<"network">>, <<"network", "max_connections">>}

\* The defaults callers pass: 80.0 (the default of the parameter) and 500
Defaults == {FloatValue(80), IntValue(500)}

\* ConfigLoader.get(key, default), keys = key.split("."), from value downwards
RECURSIVE ConfigLoader_get_from(_, _, _)
ConfigLoader_get_from(value, keys, default) ==
    IF keys = <<>>
    THEN value
    ELSE IF value.t = "dict" /\ Head(keys) \in DOMAIN value.d
         THEN ConfigLoader_get_from(value.d[Head(keys)], Tail(keys), default)
         ELSE default

\* ConfigLoader.get
ConfigLoader_get(cfg, keys, default) == ConfigLoader_get_from(cfg, keys, default)

\* float(value): [raised, value]
float(value) ==
    CASE value.t = "int" -> [raised |-> FALSE, value |-> FloatValue(value.v)]
      [] value.t = "float" -> [raised |-> FALSE, value |-> value]
      [] value.t = "str" -> [raised |-> FALSE, value |-> FloatValue(value.v)]
      [] OTHER -> [raised |-> TRUE, value |-> Null]

ConfigLoader_get_threshold_flat_first(cfg, metric_key, default) ==
    LET first == ConfigLoader_get(cfg, metric_key, Null)
        second == ConfigLoader_get(cfg, <<"thresholds">> \o metric_key, Null)
    IN  IF first.t # "null"
        THEN float(first)
        ELSE IF second.t # "null"
             THEN float(second)
             ELSE [raised |-> FALSE, value |-> default]

\* ConfigLoader.get_threshold
ConfigLoader_get_threshold(cfg, metric_key, default) ==
    LET first == ConfigLoader_get(cfg, <<"thresholds">> \o metric_key, Null)
        second == ConfigLoader_get(cfg, metric_key, Null)
    IN  IF first.t # "null"
        THEN float(first)
        ELSE IF second.t # "null"
             THEN float(second)
             ELSE [raised |-> FALSE, value |-> default]

BaseMetricCollector_get_threshold_unguarded(cfg, metric_key, default) ==
    ConfigLoader_get_threshold(cfg, metric_key, default)

\* BaseMetricCollector.get_threshold
BaseMetricCollector_get_threshold(cfg, metric_key, default) ==
    LET inner == ConfigLoader_get_threshold(cfg, metric_key, default)
    IN  IF inner.raised
        THEN [raised |-> FALSE, value |-> default]
        ELSE inner

NoLookup ==
    [done |-> FALSE, who |-> "none", key |-> <<>>, default |-> Null,
     raised |-> FALSE, value |-> Null, inner_raised |-> FALSE, config_before |-> Null]

NoHealth ==
    [done |-> FALSE, collector |-> "none", failed |-> {}, metrics |-> EmptyDict,
     raised |-> FALSE, value |-> FALSE]

\* ConfigLoader.__init__ has loaded some document
ConfigInit ==
    /\ config \in Configs
    /\ lookup = NoLookup
    /\ health = NoHealth

\* config.get_threshold(metric_key, default), called directly
LoaderLookup(metric_key, default) ==
    LET out == ConfigLoader_get_threshold(config, metric_key, default)
    IN  /\ lookup' = [done |-> TRUE, who |-> "loader", key |-> metric_key,
                      default |-> default, raised |-> out.raised, value |-> out.value,
                      inner_raised |-> out.raised, config_before |-> config]
        /\ UNCHANGED <<config, health>>
        /\ UNCHANGED <<alertVars, healVars>>

\* collector.get_threshold(metric_key, default)
CollectorLookup(metric_key, default) ==
    LET inner == ConfigLoader_get_threshold(config, metric_key, default)
        out == BaseMetricCollector_get_threshold(config, metric_key, default)
    IN  /\ lookup' = [done |-> TRUE, who |-> "collector", key |-> metric_key,
                      default |-> default, raised |-> out.raised, value |-> out.value,
                      inner_raised |-> inner.raised, config_before |-> config]
        /\ UNCHANGED <<config, health>>
        /\ UNCHANGED <<alertVars, healVars>>

\* The threshold lookup, directly or through a collector
NextConfig ==
    \/ \E metric_key \in MetricKeys, default \in Defaults : LoaderLookup(metric_key, default)
    \/ \E metric_key \in MetricKeys, default \in Defaults : CollectorLookup(metric_key, default)

\* The empty document, never looked up
ConfigIdle ==
    /\ config = DictValue(EmptyDict)
    /\ lookup = NoLookup
    /\ health = NoHealth

----------------------------------------------------------------------------
(* Health evaluation: app/monitoring/system.py, app/monitoring/network.py *)

SystemMetricNames ==
    {"cpu_usage_percent", "memory_usage_percent", "disk_usage_percent", "load_average"}

NetworkMetricNames ==
    {"network_bytes_sent_per_sec", "network_bytes_recv_per_sec", "network_connections"}

\* What a psutil read does: it raises, or it gives the number v
ReadFailed == [raised |-> TRUE, v |-> 0]
ReadGave(n) == [raised |-> FALSE, v |-> n]

SystemReadings == {ReadFailed} \cup {ReadGave(n) : n \in {1, 10, 50, 95}}
RateReadings == {ReadFailed} \cup {ReadGave(n) : n \in {0, 95}}
ConnectionReadings == {ReadFailed} \cup {ReadGave(n) : n \in {0, 10, 500, 600}}

\* BaseMetricCollector._safe_execute: the value of func(), None when it raises
BaseMetricCollector__safe_execute(read) ==
    IF read.raised THEN Null ELSE FloatValue(read.v)

\* SystemMetrics.collect: every _get_* is a bare psutil read
SystemMetrics_collect(reads) ==
    [m \in SystemMetricNames |-> BaseMetricCollector__safe_execute(reads[m])]

\* NetworkMetrics._get_bytes_sent, _get_bytes_recv: 0.0 when psutil raises
NetworkMetrics__get_bytes(read) ==
    IF read.raised THEN ReadGave(0) ELSE read

\* NetworkMetrics._get_connections: 0 when psutil raises
NetworkMetrics__get_connections(read) ==
    IF read.raised THEN ReadGave(0) ELSE read

\* NetworkMetrics.collect
NetworkMetrics_collect(reads) ==
    [m \in NetworkMetricNames |->
        IF m = "network_connections"
        THEN BaseMetricCollector__safe_execute(NetworkMetrics__get_connections(reads[m]))
        ELSE BaseMetricCollector__safe_execute(NetworkMetrics__get_bytes(reads[m]))]

\* sample < threshold in Python: TypeError when the sample is None
PyLess(sample, threshold) ==
    IF sample.t = "null"
    THEN [raised |-> TRUE, value |-> FALSE]
    ELSE [raised |-> FALSE, value |-> sample.v < threshold.v]

\* SystemMetrics.is_healthy on the dict collect() returned: the four
\* comparisons are evaluated in turn, then ANDed
SystemMetrics_is_healthy(cfg, metrics) ==
    LET cpu_ok == PyLess(metrics["cpu_usage_percent"],
                    BaseMetricCollector_get_threshold(cfg, <<"cpu_usage_percent">>, FloatValue(80)).value)
        mem_ok == PyLess(metrics["memory_usage_percent"],
                    BaseMetricCollector_get_threshold(cfg, <<"memory_usage_percent">>, FloatValue(80)).value)
        disk_ok == PyLess(metrics["disk_usage_percent"],
                    BaseMetricCollector_get_threshold(cfg, <<"disk_usage_percent">>, FloatValue(80)).value)
        load_ok == PyLess(metrics["load_average"],
                    BaseMetricCollector_get_threshold(cfg, <<"load_average_limit">>, FloatValue(80)).value)
    IN  IF cpu_ok.raised \/ mem_ok.raised \/ disk_ok.raised \/ load_ok.raised
        THEN [raised |-> TRUE, value |-> FALSE]
        ELSE [raised |-> FALSE,
              value |-> cpu_ok.value /\ mem_ok.value /\ disk_ok.value /\ load_ok.value]

\* NetworkMetrics.is_healthy on the dict collect() returned
NetworkMetrics_is_healthy(cfg, metrics) ==
    LET connections_ok ==
            PyLess(metrics["network_connections"],
                   BaseMetricCollector_get_threshold(cfg, <<"network", "max_connections">>,
                                                     IntValue(500)).value)
    IN  connections_ok

\* Documents for the health evaluator: the empty one, the thresholds 80, 90, 90
\* and 5 under the thresholds namespace, and a flat connection limit of 10
HealthConfigs ==
    {DictValue(EmptyDict),
     DictValue([k \in {"thresholds"} |->
        DictValue([m \in {"cpu_usage_percent", "memory_usage_percent",
                          "disk_usage_percent", "load_average_limit"} |->
            CASE m = "cpu_usage_percent" -> IntValue(80)
              [] m = "load_average_limit" -> IntValue(5)
              [] OTHER -> IntValue(90)])]),
     DictValue([k \in {"network"} |->
        DictValue([m \in {"max_connections"} |-> IntValue(10)])])}

HealthInit ==
    /\ config \in HealthConfigs
    /\ lookup = NoLookup
    /\ health = NoHealth

\* SystemMetrics().is_healthy(): collect, then compare
SystemHealth(reads) ==
    \E metrics \in {SystemMetrics_collect(reads)} :
    \E out \in {SystemMetrics_is_healthy(config, metrics)} :
        /\ health' = [done |-> TRUE, collector |-> "system",
                      failed |-> {m \in SystemMetricNames : reads[m].raised},
                      metrics |-> metrics,
                      raised |-> out.raised, value |-> out.value]
        /\ UNCHANGED <<config, lookup>>
        /\ UNCHANGED <<alertVars, healVars>>

\* NetworkMetrics().is_healthy(): collect, then compare
NetworkHealth(reads) ==
    \E metrics \in {NetworkMetrics_collect(reads)} :
    \E out \in {NetworkMetrics_is_healthy(config, metrics)} :
        /\ health' = [done |-> TRUE, collector |-> "network",
                      failed |-> {m \in NetworkMetricNames : reads[m].raised},
                      metrics |-> metrics,
                      raised |-> out.raised, value |-> out.value]
        /\ UNCHANGED <<config, lookup>>
        /\ UNCHANGED <<alertVars, healVars>>

\* The health evaluator of either collector, on any readings
NextHealth ==
    \/ \E reads \in [SystemMetricNames -> SystemReadings] : SystemHealth(reads)
    \/ \E reads \in {r \in [NetworkMetricNames -> RateReadings \cup ConnectionReadings] :
                        /\ r["network_connections"] \in ConnectionReadings
                        /\ r["network_bytes_sent_per_sec"] \in RateReadings
                        /\ r["network_bytes_recv_per_sec"] \in RateReadings} :
            NetworkHealth(reads)

----------------------------------------------------------------------------
(* Specifications *)

\* The alert senders
Init == AlertInit /\ HealIdle /\ ConfigIdle

Spec == Init /\ [][Next]_vars

\* The healer
InitHeal == AlertIdle /\ HealInit /\ ConfigIdle

\* Two overlapping send_alert calls on one sender
SpecRace == Init /\ [][NextRace]_vars

\* One sender per channel
InitMulti == MultiInit /\ HealIdle /\ ConfigIdle

SpecMulti == InitMulti /\ [][NextMulti]_vars

\* The message formatter
InitFormat == AlertIdle /\ HealIdle /\ ConfigIdle

SpecFormat == InitFormat /\ [][NextFormat]_vars

SpecHeal == InitHeal /\ [][NextHeal]_vars

\* The healer with a dry_run attribute that changes between attempts
SpecHealToggle == InitHeal /\ [][NextHealToggle]_vars

\* The threshold lookup
InitConfig == AlertIdle /\ HealIdle /\ ConfigInit

SpecConfig == InitConfig /\ [][NextConfig]_vars

\* The health evaluator
InitHealth == AlertIdle /\ HealIdle /\ HealthInit

SpecHealth == InitHealth /\ [][NextHealth]_vars

----------------------------------------------------------------------------
(* Properties of the alert senders (Spec) *)

\* C1: two send_alert calls for one key whose transport succeeds: when the second
\* is made less than the cooldown window after the first returned true it returns
\* false, when it is made at least the window after it returns true, and a first
\* call returns true; so two calls that both return true are a window apart.
C1_CooldownPairs ==
    (call.done /\ ~call.sent.raised) =>
        LET window == cooldown_minutes[call.sender]
        IN  /\ call.prev_ok = {} => call.ret
            /\ \A p \in call.prev_ok :
                  /\ (call.t0 - p < window) => ~call.ret
                  /\ (call.t0 - p >= window) => call.ret
                  /\ call.ret => (call.t1 - p >= window)

C1_Witness ==
    /\ call.done
    /\ call.ret
    /\ cooldown_minutes[call.sender] > 0
    /\ \E p \in call.prev_ok : call.t0 - p = cooldown_minutes[call.sender]

\* C2: a send_alert call whose transport send fails leaves the stored timestamp
\* of its key as it was (absent stays absent), and the next send_alert for the
\* same key invokes the transport again, however soon it comes.
C2_FailedSendKeepsTimestamp ==
    call.done =>
        /\ (call.sends > 0 /\ call.sent.raised) =>
              DictGet(last_sent[call.sender], call.metric) = call.prev
        /\ call.after_fail # {} => call.sends = 1

C2_Witness ==
    /\ call.done
    /\ call.sends = 1
    /\ cooldown_minutes[call.sender] > 0
    /\ \E f \in call.after_fail : call.t0 - f < cooldown_minutes[call.sender]

\* C5: every entry of last_sent is the time of a delivery of a message for that
\* key by the transport of that sender.
C5_TimestampMeansDelivered ==
    \A s \in senders : \A k \in DOMAIN last_sent[s] :
        /\ k \in DOMAIN last_delivered[s]
        /\ last_delivered[s][k] = last_sent[s][k]

\* C6: whichever way the transport-specific _send fails, send_alert raises
\* nothing and returns false.
C6_NoTransportFailureEscapes ==
    (call.done /\ call.sends > 0 /\ call.sent.raised) =>
        (~call.escaped /\ call.ret = FALSE)

C6_Witness ==
    /\ call.done
    /\ call.sender = "email"
    /\ call.net = "other_error"
    /\ call.sent.raised
    /\ ~call.ret

\* C8: the gate check returns true iff the key has no recorded timestamp or
\* now - last_sent[key] >= the cooldown window, whatever the level or value of
\* the alert.
C8_GateRule ==
    call.done =>
        (call.over <=>
            (call.prev = {} \/
             \A p \in call.prev : call.t0 - p >= cooldown_minutes[call.sender]))

C8_Witness ==
    /\ call.done
    /\ ~call.over
    /\ call.message[1] = <<"C", "R", "I", "T", "I", "C", "A", "L">>
    /\ \E p \in call.prev : call.t0 - p = cooldown_minutes[call.sender] - 1

\* C14: on a Slack, Telegram or Email sender whose credentials are missing,
\* send_alert makes no outbound transport call and raises nothing.
C14_MissingCredentialsSkip ==
    (call.done /\ ~credentials[call.sender]) =>
        /\ ~call.sent.contacted
        /\ ~call.sent.raised
        /\ ~call.escaped

C14_Witness ==
    /\ call.done
    /\ call.sender = "slack"
    /\ ~credentials[call.sender]
    /\ call.over
    /\ call.sends = 1
    /\ call.net = "none"

\* C15: a send_alert call that passes the gate invokes the transport-specific
\* _send exactly once, whether the send succeeds or fails; a call the gate
\* rejects does not invoke it.
C15_OneSendPerCall ==
    call.done =>
        /\ call.over => call.sends = 1
        /\ ~call.over => call.sends = 0

C15_Witness ==
    /\ call.done
    /\ call.over
    /\ call.sent.raised
    /\ call.sends = 1
    /\ ~call.ret

\* C21: a send_alert call that the gate rejects returns false, makes no
\* transport call and leaves the whole last_sent mapping as it was; the window
\* of the suppressed key is neither refreshed nor extended.
C21_RejectedCallChangesNothing ==
    [][(call'.done /\ ~call'.over) =>
          /\ ~call'.ret
          /\ call'.sends = 0
          /\ ~call'.sent.contacted
          /\ last_sent' = last_sent]_vars

C21_Witness ==
    /\ call.done
    /\ ~call.over
    /\ ~call.ret
    /\ call.sends = 0
    /\ call.t0 = MaxTime
    /\ \E p \in call.prev :
          /\ p < call.t0
          /\ last_sent[call.sender][call.metric] = p

\* C23: a send_alert call for a key, whatever its outcome, leaves the entry of
\* every other key of last_sent as it was (absent stays absent), so an alert
\* for one key neither delays nor suppresses an alert for another.
C23_OtherKeysUntouched ==
    [][call'.done =>
          \A s \in senders : \A j \in Metrics \ {call'.metric} :
              DictGet(last_sent'[s], j) = DictGet(last_sent[s], j)]_vars

C23_Witness ==
    /\ call.done
    /\ call.ret
    /\ \E j \in Metrics \ {call.metric} :
          /\ j \in DOMAIN last_sent[call.sender]
          /\ last_sent[call.sender][j] < call.t0
          /\ call.t0 - last_sent[call.sender][j] < cooldown_minutes[call.sender]

\* C24: a send_alert call returns true iff it set last_sent[key] to the time
\* of the call, and a call that returns false leaves last_sent unchanged.
C24_ReturnAgreesWithTimestamp ==
    [][call'.done =>
          /\ call'.t0 <= call'.t1
          /\ IF call'.ret
             THEN last_sent' = [last_sent EXCEPT ![call'.sender] =
                                   DictPut(@, call'.metric, call'.t1)]
             ELSE last_sent' = last_sent]_vars

C24_Witness ==
    /\ call.done
    /\ call.ret
    /\ call.t1 > call.t0
    /\ call.prev # {}
    /\ last_sent[call.sender][call.metric] = call.t1
    /\ now = call.t1

----------------------------------------------------------------------------
(* Properties of several senders (SpecMulti) *)

\* C26: a send_alert call on one sender leaves the last_sent mapping of every
\* other sender instance as it was, so each channel gates the same breach on
\* its own timestamps.
C26_CooldownStatePerSender ==
    [][call'.done =>
          \A s \in senders \ {call'.sender} : last_sent'[s] = last_sent[s]]_vars

C26_Witness ==
    /\ call.done
    /\ call.sender = "slack"
    /\ call.ret
    /\ call.metric \in DOMAIN last_sent["telegram"]
    /\ last_sent["telegram"][call.metric] < call.t1
    /\ call.t0 - last_sent["telegram"][call.metric] < cooldown_minutes["telegram"]
    /\ call.metric \notin DOMAIN last_sent["email"]

----------------------------------------------------------------------------
(* Properties of overlapping send_alert calls (SpecRace) *)

\* C16: the gate is read and the timestamp written in separate steps with
\* nothing holding other calls off in between: a call that passed the gate and
\* whose transport did not fail writes its timestamp and returns true whatever
\* another call wrote since the gate check, and returns false otherwise. Two
\* overlapping calls for one key can so both pass the gate, both invoke the
\* transport and both return true inside one cooldown window (C16_Witness).
C16_GateResultNotRechecked ==
    \A t \in Threads :
        threads[t].pc = "done" =>
            /\ threads[t].ret = (threads[t].over /\ ~threads[t].sent.raised)
            /\ threads[t].ret =>
                  \E s \in senders :
                      /\ threads[t].metric \in DOMAIN last_sent[s]
                      /\ last_sent[s][threads[t].metric] >= threads[t].t1

C16_Witness ==
    /\ threads["thread1"].pc = "done"
    /\ threads["thread2"].pc = "done"
    /\ threads["thread1"].metric = threads["thread2"].metric
    /\ threads["thread1"].ret
    /\ threads["thread2"].ret
    /\ threads["thread1"].sent.contacted
    /\ threads["thread2"].sent.contacted
    /\ \E s \in senders :
          /\ cooldown_minutes[s] > 0
          /\ threads["thread2"].t1 - threads["thread1"].t1 \in 0..(cooldown_minutes[s] - 1)

----------------------------------------------------------------------------
(* Properties of the message formatter (SpecFormat) *)

\* Two characters that are the same letter in either case, or the same character
SameIgnoringCase(a, b) ==
    \/ a = b
    \/ \E i \in DOMAIN LowerLetters : {a, b} = {LowerLetters[i], UpperLetters[i]}

\* Two texts that differ at most in the case of their letters
DifferOnlyInCase(x, y) ==
    /\ Len(x) = Len(y)
    /\ \A i \in DOMAIN x : SameIgnoringCase(x[i], y[i])

IsLowerLetter(c) == \E i \in DOMAIN LowerLetters : c = LowerLetters[i]

\* C17: the message is the level in upper case, " Alert: ", the metric,
\* " exceeded threshold (", the value, " > ", the threshold and ")"; two calls
\* with equal arguments give equal messages, and so do two calls whose levels
\* differ only in letter case.
C17_MessageFormat ==
    /\ \A i \in DOMAIN formatted :
          LET f == formatted[i]
          IN  /\ Len(f.message) = 8
              /\ DifferOnlyInCase(f.message[1], f.level)
              /\ \A j \in DOMAIN f.message[1] : ~IsLowerLetter(f.message[1][j])
              /\ f.message[2] = " Alert: "
              /\ f.message[3] = f.metric
              /\ f.message[4] = " exceeded threshold ("
              /\ f.message[5] = f.value
              /\ f.message[6] = " > "
              /\ f.message[7] = f.threshold
              /\ f.message[8] = ")"
    /\ \A i, j \in DOMAIN formatted :
          (/\ formatted[i].metric = formatted[j].metric
           /\ formatted[i].value = formatted[j].value
           /\ formatted[i].threshold = formatted[j].threshold
           /\ DifferOnlyInCase(formatted[i].level, formatted[j].level))
              => formatted[i].message = formatted[j].message

C17_Witness ==
    /\ Len(formatted) = 2
    /\ formatted[1].level = <<"C", "r", "i", "t", "i", "c", "a", "l">>
    /\ formatted[2].level = <<"c", "r", "i", "t", "i", "c", "a", "l">>
    /\ formatted[1].metric = formatted[2].metric
    /\ formatted[1].value = formatted[2].value
    /\ formatted[1].threshold = formatted[2].threshold
    /\ formatted[1].message = formatted[2].message
    /\ formatted[1].message[1] = <<"C", "R", "I", "T", "I", "C", "A", "L">>

----------------------------------------------------------------------------
(* Properties of the healer (SpecHeal) *)

\* A _safe_execute call has ended
Finished == hpc = "idle" /\ result # "none"

\* C3: with dry-run off, one execute call of an operation that fails on every
\* invocation invokes it exactly max_retries times, and then the failure
\* propagates to the caller.
C3_AlwaysFailingRunsMaxRetries ==
    (Finished /\ ~dry_run /\ failures = invocations) =>
        (invocations = max_retries /\ result = "raised")

\* C4: while dry-run is active every execute call returns success and the
\* operation is not invoked.
C4_DryRunReturnsSuccess ==
    (Finished /\ dry_run) => (result = "True" /\ invocations = 0)

\* C13: a remediation command that exits with a non-success code makes its
\* operation raise, so that the retry executor counts the invocation as failed.
C13_NonZeroExitRaises ==
    ran.cmd = "nonzero" => ran.raised

\* C18: with dry-run off, once an invocation succeeds the call has ended and
\* returned its result: the successful invocation is the attempt-th and last
\* one, all attempt - 1 before it failed, and no failure propagated.
C18_SuccessEndsTheCall ==
    invocations > failures =>
        /\ hpc = "idle"
        /\ result = "returned"
        /\ invocations = attempt
        /\ failures = attempt - 1
        /\ attempt \in 1..max_retries

C18_Witness ==
    /\ ~dry_run
    /\ result = "returned"
    /\ max_retries = MaxRetries
    /\ invocations = MaxRetries
    /\ failures = MaxRetries - 1

\* C19: every sleep of a call is 2 time units long; a sleep is taken after each
\* failed attempt that another attempt follows and after nothing else: a call
\* that ended in the final failure slept once less than it failed, a call that
\* ended otherwise slept once per failure, a call under way has slept once per
\* completed attempt.
C19_FixedBackoffBetweenAttempts ==
    /\ \A i \in DOMAIN sleeps : sleeps[i] = 2
    /\ hpc = "loop" => (Len(sleeps) = attempt - 1 /\ Len(sleeps) = failures)
    /\ hpc = "sleep" => Len(sleeps) = failures - 1
    /\ Finished =>
          Len(sleeps) = IF result = "raised" THEN failures - 1 ELSE failures

C19_Witness ==
    /\ Finished
    /\ result = "raised"
    /\ failures = MaxRetries
    /\ Len(sleeps) = MaxRetries - 1

\* C20: dry_run is read by every attempt: an attempt that finds dry_run true,
\* be it the first or one that follows a failed attempt during whose sleep
\* the flag was set, invokes nothing further and the call returns success.
C20_DryRunReadByEveryAttempt ==
    [][(hpc = "loop" /\ dry_run /\ hpc' # "loop") =>
          (hpc' = "idle" /\ result' = "True" /\ invocations' = invocations)]_vars

C20_Witness ==
    /\ Finished
    /\ dry_run
    /\ result = "True"
    /\ failures >= 1
    /\ invocations = failures
    /\ attempt = failures + 1

\* C22: every execute call that has ended either returned a success result
\* (in dry-run: success without an invocation) or raised the failure of its last
\* attempt, for every configured max_retries, 0 and negative values included.
C22_EndsSucceededOrExhausted ==
    Finished => result \in {"returned", "True", "raised"}

\* C7: with auto_healing.enabled false no public healing action invokes its
\* remediation operation.
C7_DisabledNeverInvokes ==
    ~healing_enabled => invocations = 0

----------------------------------------------------------------------------
(* Properties of the threshold lookup (SpecConfig) *)

\* The value the document holds at a dot path: the empty set when the path
\* leads nowhere or to a null.
RECURSIVE EntryAt(_, _)
EntryAt(value, path) ==
    IF path = <<>>
    THEN IF value.t = "null" THEN {} ELSE {value}
    ELSE IF value.t # "dict"
         THEN {}
         ELSE IF Head(path) \notin DOMAIN value.d
              THEN {}
              ELSE EntryAt(value.d[Head(path)], Tail(path))

Namespaced == EntryAt(lookup.config_before, <<"thresholds">> \o lookup.key)
Flat == EntryAt(lookup.config_before, lookup.key)

\* The entry the precedence selects: the namespaced one, else the flat one
Selected == IF Namespaced # {} THEN Namespaced ELSE Flat

IsNumber(x) == x.t \in {"int", "float"}

\* Python's ==: numbers compare by value, a string equals only a string
PyEq(a, b) ==
    IF IsNumber(a) /\ IsNumber(b)
    THEN a.v = b.v
    ELSE a.t = b.t /\ a.t # "dict" /\ a.v = b.v

\* C9 as stated: the namespaced value, else the flat value, else the default is
\* returned, for every key and every configuration.
C9_PrecedenceReturnsStoredValue ==
    (lookup.done /\ lookup.who = "loader") =>
        /\ ~lookup.raised
        /\ \A x \in Selected : PyEq(lookup.value, x)
        /\ Selected = {} => lookup.value = lookup.default

\* C9 amended: the namespaced value, else the flat value, is selected and its
\* conversion by float() is returned when it is a number or spells one; when it
\* does not convert the lookup raises; with neither entry the default is returned.
C9_PrecedenceReturnsConverted ==
    (lookup.done /\ lookup.who = "loader") =>
        /\ \A x \in Selected :
              IF x.t \in {"int", "float", "str"}
              THEN ~lookup.raised /\ lookup.value = FloatValue(x.v)
              ELSE lookup.raised
        /\ Selected = {} => (~lookup.raised /\ lookup.value = lookup.default)

C9_Witness ==
    /\ lookup.done
    /\ lookup.who = "loader"
    /\ \E x \in Namespaced, y \in Flat : x.t = "int" /\ y.t = "text"
    /\ ~lookup.raised
    /\ \E x \in Namespaced : lookup.value = FloatValue(x.v)

\* C10: the collector's get_threshold raises nothing; when the underlying
\* lookup errors it returns exactly the default; it changes no state.
C10_CollectorLookupNeverFails ==
    (lookup.done /\ lookup.who = "collector") =>
        /\ ~lookup.raised
        /\ lookup.inner_raised => lookup.value = lookup.default
        /\ config = lookup.config_before

C10_Witness ==
    /\ lookup.done
    /\ lookup.who = "collector"
    /\ lookup.inner_raised
    /\ \E x \in Selected : x.t = "text"
    /\ lookup.value = lookup.default

----------------------------------------------------------------------------
(* Properties of the health evaluator (SpecHealth) *)

\* The threshold the collector's get_threshold resolves for a metric of
\* collect(): load_average is looked up as load_average_limit, the connection
\* count as network.max_connections with the default 500, every other metric
\* under its own name with the default of the parameter, 80.0.
ResolvedThreshold(cfg, m) ==
    CASE m = "load_average" ->
            BaseMetricCollector_get_threshold(cfg, <<"load_average_limit">>, FloatValue(80)).value
      [] m = "network_connections" ->
            BaseMetricCollector_get_threshold(cfg, <<"network", "max_connections">>, IntValue(500)).value
      [] OTHER ->
            BaseMetricCollector_get_threshold(cfg, <<m>>, FloatValue(80)).value

\* C11: is_healthy returns true iff every metric that the collector's collect()
\* reports is strictly less than its resolved threshold.
C11_HealthyIffAllBelow ==
    health.done =>
        ((~health.raised /\ health.value) <=>
            \A m \in DOMAIN health.metrics :
                /\ health.metrics[m].t # "null"
                /\ health.metrics[m].v < ResolvedThreshold(config, m).v)

\* C11 for the metrics SystemMetrics compares: the part of the claim that holds
C11_SystemPart ==
    (health.done /\ health.collector = "system") => C11_HealthyIffAllBelow

\* C25: when reading the connection count fails, NetworkMetrics.is_healthy
\* does not return true.
C25_FailedReadNeverHealthy ==
    (/\ health.done
     /\ health.collector = "network"
     /\ "network_connections" \in health.failed)
        => ~(~health.raised /\ health.value)

\* C12: is_healthy on a collected dict with null samples returns a boolean and
\* raises nothing, and a null sample never counts as passing.
C12_NullSampleGivesBoolean ==
    health.done =>
        /\ ~health.raised
        /\ (\E m \in DOMAIN health.metrics : health.metrics[m].t = "null") => ~health.value

====
